---- MODULE Spec2Model ----
(***************************************************************************)
(* Model of data/process_data.py: load_data, clean_data, save_data, main.  *)
(*                                                                         *)
(* A text is a sequence of lexemes.  A lexeme is a piece of text that      *)
(* holds no separator (a name such as "related", one digit character, one  *)
(* other character) or is one of the separators ";" and "-".  str.split    *)
(* works on these sequences as it works on characters.                     *)
(*                                                                         *)
(* A table (DataFrame) is [cols |-> sequence of column names,              *)
(* rows |-> sequence of rows], a row being the sequence of its cells in    *)
(* column order.  Column names are texts.                                  *)
(*                                                                         *)
(* Inputs left out: a categories cell that is NaN, and category names      *)
(* equal to one of the table's other column names.                         *)
(***************************************************************************)
EXTENDS Integers, Sequences, FiniteSets, TLC

VARIABLES
    argc,   \* number of positional arguments of the process (len(sys.argv) - 1)
    fs,     \* the two source files: [messages, categories], each a file or Missing
    pc,     \* position of the run
    obj,    \* the table object handed to clean_data (mutated in place by it)
    df,     \* the value bound to df / returned by clean_data
    again,  \* result of calling clean_data on a table clean_data returned
    input,  \* the table as it was when it was handed to clean_data
    err,    \* the exception that ended the call or the run ("" when none)
    db,     \* the relation DisasterResponse at the destination
    out,    \* lines printed by the run
    run,    \* number of the run against the destination
    saves   \* number of runs that saved to the destination

vars == <<argc, fs, pc, obj, df, again, input, err, db, out, run, saves>>

-----------------------------------------------------------------------------
(* Bounds *)

MaxRows == 2
MaxArgs == 4
MaxRuns == 2

-----------------------------------------------------------------------------
(* Texts *)

SEMI == ";"
DASH == "-"

Digits == {"0", "1", "2", "3", "4", "5", "6", "7", "8", "9"}

DigitVal(c) ==
    CASE c = "0" -> 0 [] c = "1" -> 1 [] c = "2" -> 2 [] c = "3" -> 3
      [] c = "4" -> 4 [] c = "5" -> 5 [] c = "6" -> 6 [] c = "7" -> 7
      [] c = "8" -> 8 [] c = "9" -> 9

\* str.split(sep): the pieces between the occurrences of sep; "" gives [""].
RECURSIVE SplitFrom(_, _, _)
SplitFrom(s, sep, cur) ==
    IF s = <<>> THEN <<cur>>
    ELSE IF Head(s) = sep THEN <<cur>> \o SplitFrom(Tail(s), sep, <<>>)
    ELSE SplitFrom(Tail(s), sep, Append(cur, Head(s)))

StrSplit(s, sep) == SplitFrom(s, sep, <<>>)

\* int(x) accepts x: a non-empty run of digits.
IsIntText(s) == Len(s) >= 1 /\ \A i \in 1..Len(s) : s[i] \in Digits

RECURSIVE IntOf(_)
IntOf(s) ==
    IF s = <<>> THEN 0
    ELSE 10 * IntOf(SubSeq(s, 1, Len(s) - 1)) + DigitVal(s[Len(s)])

-----------------------------------------------------------------------------
(* Tables *)

ID == <<"id">>
MESSAGE == <<"message">>
ORIGINAL == <<"original">>
GENRE == <<"genre">>
CATEGORIES == <<"categories">>

NoTable == [cols |-> <<>>, rows |-> <<>>]
Table(cols, rows) == [cols |-> cols, rows |-> rows]

HasCol(t, c) == \E i \in 1..Len(t.cols) : t.cols[i] = c
ColIdx(t, c) == CHOOSE i \in 1..Len(t.cols) : t.cols[i] = c /\ \A j \in 1..(i - 1) : t.cols[j] # c
Cell(t, r, c) == t.rows[r][ColIdx(t, c)]
NRows(t) == Len(t.rows)

\* the elements of s at the positions of keep (increasing sequence of positions)
Pick(s, keep) == [k \in 1..Len(keep) |-> s[keep[k]]]

\* the elements of the set of numbers S in increasing order
RECURSIVE Ascending(_)
Ascending(S) ==
    IF S = {} THEN <<>>
    ELSE LET m == CHOOSE x \in S : \A y \in S : y <= x
         IN  Append(Ascending(S \ {m}), m)

-----------------------------------------------------------------------------
(* clean_data *)

\* df.categories.str.split(';', expand=True): one row of tokens per record.
\* The frame is as wide as the longest row; a shorter row is padded with None,
\* which is modelled by the row's own length (cell j of row r is None iff
\* j > Len(row r)).
SplitExpand(t) ==
    [r \in 1..NRows(t) |-> StrSplit(Cell(t, r, CATEGORIES), SEMI)]

Width(toks) ==
    IF Len(toks) = 0 THEN 0
    ELSE CHOOSE w \in {Len(toks[r]) : r \in 1..Len(toks)} :
             \A r \in 1..Len(toks) : Len(toks[r]) <= w

\* row.apply(lambda x: x.split('-')[0]) on the first row
CategoryColnames(row) == [j \in 1..Len(row) |-> StrSplit(row[j], DASH)[1]]

\* categories[column].str.split('-').str[1] of one cell: the second piece,
\* NaN (no value) when there is none
HasSecond(tok) == Len(StrSplit(tok, DASH)) >= 2
Second(tok) == StrSplit(tok, DASH)[2]

\* astype(int) accepts the cell
Castable(toks, r, j) ==
    /\ j <= Len(toks[r])
    /\ HasSecond(toks[r][j])
    /\ IsIntText(Second(toks[r][j]))

\* categories[column] is a frame, not a column, when the label occurs twice
Duplicated(names, j) == \E k \in 1..Len(names) : k # j /\ names[k] = names[j]

\* clip left out: the number as parsed
MutClipNone(v, lo, hi) == v

\* clip(0, 1) of one value
Clip(v, lo, hi) == IF v < lo THEN lo ELSE IF v > hi THEN hi ELSE v

\* the decoded, clipped frame
Decoded(toks, width) ==
    [r \in 1..Len(toks) |-> [j \in 1..width |-> Clip(IntOf(Second(toks[r][j])), 0, 1)]]

\* positions of the columns with exactly one distinct value
OneValCols(vals, width) ==
    {j \in 1..width : Cardinality({vals[r][j] : r \in 1..Len(vals)}) = 1}

\* df.drop('categories', axis=1, inplace=True)
DropColumn(t, c) ==
    LET keep == Ascending({i \in 1..Len(t.cols) : t.cols[i] # c})
    IN  Table(Pick(t.cols, keep), [r \in 1..NRows(t) |-> Pick(t.rows[r], keep)])

\* pd.concat([categories, df], axis=1): the operands swapped
MutConcatSwapped(t, names, vals) ==
    Table(names \o t.cols, [r \in 1..NRows(t) |-> vals[r] \o t.rows[r]])

\* pd.concat([df, categories], axis=1)
Concat(t, names, vals) ==
    Table(t.cols \o names, [r \in 1..NRows(t) |-> t.rows[r] \o vals[r]])

\* drop_duplicates(..., keep='last'): the last row of every (a, b) pair
MutDropDuplicatesLast(t, a, b) ==
    LET Key(r) == <<Cell(t, r, a), Cell(t, r, b)>>
        keep == Ascending({r \in 1..NRows(t) :
                              \A q \in (r + 1)..NRows(t) : Key(q) # Key(r)})
    IN  Table(t.cols, Pick(t.rows, keep))

\* df.drop_duplicates(subset=[a, b]): the first row of every (a, b) pair
DropDuplicates(t, a, b) ==
    LET Key(r) == <<Cell(t, r, a), Cell(t, r, b)>>
        keep == Ascending({r \in 1..NRows(t) : \A q \in 1..(r - 1) : Key(q) # Key(r)})
    IN  Table(t.cols, Pick(t.rows, keep))

\* an exception leaves the function: no table is returned
Raise(kind, arg) == [ok |-> FALSE, err |-> kind, ret |-> NoTable, arg |-> arg]

\* the exception raised by the conversion loop: that of the first column, in
\* column order, that cannot be converted
LoopError(toks, names) ==
    LET bad == {j \in 1..Len(names) :
                   Duplicated(names, j) \/ \E r \in 1..Len(toks) : ~Castable(toks, r, j)}
        j == CHOOSE x \in bad : \A y \in bad : x <= y
    IN  IF Duplicated(names, j) THEN "AttributeError" ELSE "ValueError"

\* clean_data(df): [ok, err, ret: the table returned, arg: the table object
\* that was passed in, as the call leaves it]
clean_data(t) ==
    IF ~HasCol(t, CATEGORIES) THEN Raise("AttributeError", t)
    ELSE
    LET toks == SplitExpand(t)
        width == Width(toks)
    IN  IF NRows(t) = 0 THEN Raise("IndexError", t)
        ELSE IF Len(toks[1]) < width THEN Raise("AttributeError", t)
        ELSE
        LET names == CategoryColnames(toks[1])
        IN  IF \E j \in 1..width :
                   Duplicated(names, j) \/ \E r \in 1..Len(toks) : ~Castable(toks, r, j)
            THEN Raise(LoopError(toks, names), t)
            ELSE
            LET vals == Decoded(toks, width)
                keep == Ascending((1..width) \ OneValCols(vals, width))
                dropped == DropColumn(t, CATEGORIES)
                wide == Concat(dropped, Pick(names, keep),
                               [r \in 1..Len(vals) |-> Pick(vals[r], keep)])
            IN  IF ~HasCol(wide, MESSAGE) \/ ~HasCol(wide, ORIGINAL)
                THEN Raise("KeyError", dropped)
                ELSE [ok |-> TRUE, err |-> "",
                      ret |-> DropDuplicates(wide, MESSAGE, ORIGINAL),
                      arg |-> dropped]

-----------------------------------------------------------------------------
(* load_data, save_data *)

Missing == [exists |-> FALSE, table |-> NoTable]
File(t) == [exists |-> TRUE, table |-> t]

\* the column names the two frames share, in the left frame's order
CommonCols(l, r) ==
    Pick(l.cols, Ascending({i \in 1..Len(l.cols) : HasCol(r, l.cols[i])}))

\* the right frame's columns that are not join columns
RightOnly(l, r) == Ascending({i \in 1..Len(r.cols) : ~HasCol(l, r.cols[i])})

Matches(l, r, a, b) ==
    \A k \in 1..Len(CommonCols(l, r)) :
        Cell(l, a, CommonCols(l, r)[k]) = Cell(r, b, CommonCols(l, r)[k])

\* the joined rows of left rows a..NRows(l): left order, then right order
RECURSIVE MergeFrom(_, _, _)
MergeFrom(l, r, a) ==
    IF a > NRows(l) THEN <<>>
    ELSE LET hits == Ascending({b \in 1..NRows(r) : Matches(l, r, a, b)})
         IN  [k \in 1..Len(hits) |-> l.rows[a] \o Pick(r.rows[hits[k]], RightOnly(l, r))]
             \o MergeFrom(l, r, a + 1)

\* messages.merge(categories): inner join on the shared columns
Merge(l, r) == Table(l.cols \o Pick(r.cols, RightOnly(l, r)), MergeFrom(l, r, 1))

\* load_data(messages_filepath, categories_filepath)
load_data(messages, categories) ==
    IF ~messages.exists \/ ~categories.exists THEN Raise("FileNotFoundError", NoTable)
    ELSE IF Len(CommonCols(messages.table, categories.table)) = 0
    THEN Raise("MergeError", NoTable)
    ELSE [ok |-> TRUE, err |-> "", ret |-> Merge(messages.table, categories.table),
          arg |-> NoTable]

\* if_exists='append': the rows are added to those of an existing relation
MutSaveAppend(t, rel) ==
    IF rel = NoTable THEN t ELSE Table(rel.cols, rel.rows \o t.rows)

\* df.to_sql('DisasterResponse', engine, index=False, if_exists='replace'):
\* the relation after the call, rel being the relation before it
save_data(t, rel) == t

-----------------------------------------------------------------------------
(* Inputs *)

Tok(name, d) == <<name, DASH, d>>
Two(a, b) == a \o <<SEMI>> \o b

CategoryStrings ==
    { Two(Tok("related", "1"), Tok("request", "0")),
      Two(Tok("related", "0"), Tok("request", "9")),
      Two(Tok("related", "2"), Tok("request", "0")),
      Two(Tok("request", "1"), Tok("related", "0")),
      Two(Tok("related", "1"), Tok("related", "0")),
      Tok("related", "1"),
      <<>>,
      <<"related">>,
      Two(<<"related", DASH, "1", "2">>, Tok("request", "0")),
      Two(<<DASH, "1">>, Tok("request", "0")),
      Two(<<"related", DASH, "1", DASH, "x">>, Tok("request", "0")),
      Two(Tok("related", "x"), Tok("request", "0")) }

NaN == "NaN"
Keys == { <<"m1", "o1">>, <<"m1", NaN>>, <<"m2", "o1">> }

LoadedCols == <<ID, MESSAGE, ORIGINAL, GENRE, CATEGORIES>>

InputRows == { <<k[1], k[2], "direct", c>> : k \in Keys, c \in CategoryStrings }

\* the table of the records f[1], ..., f[n], numbered 1..n
InputTable(n, f) == Table(LoadedCols, [r \in 1..n |-> <<r>> \o f[r]])

-----------------------------------------------------------------------------
(* clean_data called on a table, then on the table it returned *)

NotCalled == [state |-> "none", err |-> "", ret |-> NoTable]

InitClean ==
    /\ pc = "call"
    /\ \E n \in 0..MaxRows : \E f \in [1..n -> InputRows] : input = InputTable(n, f)
    /\ obj = input
    /\ df = NoTable
    /\ again = NotCalled
    /\ err = ""
    /\ argc = 0
    /\ fs = [messages |-> Missing, categories |-> Missing]
    /\ db = NoTable
    /\ out = <<>>
    /\ run = 0
    /\ saves = 0

CallClean ==
    /\ pc = "call"
    /\ \E r \in {clean_data(obj)} :
           /\ pc' = IF r.ok THEN "returned" ELSE "raised"
           /\ obj' = r.arg
           /\ df' = r.ret
           /\ err' = r.err
    /\ UNCHANGED <<argc, fs, again, input, db, out, run, saves>>

CallCleanAgain ==
    /\ pc = "returned"
    /\ \E r \in {clean_data(df)} :
           /\ again' = [state |-> IF r.ok THEN "returned" ELSE "raised",
                        err |-> r.err, ret |-> r.ret]
           /\ df' = r.arg
    /\ pc' = "done"
    /\ UNCHANGED <<argc, fs, obj, input, err, db, out, run, saves>>

NextClean == CallClean \/ CallCleanAgain

SpecClean == InitClean /\ [][NextClean]_vars

-----------------------------------------------------------------------------
(* main: runs of the process against one destination *)

ExpectedArgv == 4

MessagesCols == <<ID, MESSAGE, ORIGINAL, GENRE>>
CategoriesCols == <<ID, CATEGORIES>>

MessagesFiles ==
    { Missing,
      File(Table(MessagesCols, << <<1, "m1", "o1", "direct">>, <<2, "m2", NaN, "news">> >>)),
      File(Table(MessagesCols, << <<1, "m1", "o1", "direct">>, <<2, "m1", "o1", "direct">> >>)),
      File(Table(MessagesCols, << <<3, "m2", "o1", "news">> >>)) }

CategoriesFiles ==
    { Missing,
      File(Table(CategoriesCols,
                 << <<1, Two(Tok("related", "1"), Tok("request", "0"))>>,
                    <<2, Two(Tok("related", "0"), Tok("request", "1"))>> >>)),
      File(Table(CategoriesCols,
                 << <<1, Two(Tok("related", "2"), Tok("request", "0"))>>,
                    <<2, Two(Tok("related", "0"), Tok("request", "0"))>>,
                    <<2, Two(Tok("related", "1"), Tok("request", "1"))>> >>)),
      File(Table(CategoriesCols,
                 << <<1, Two(Tok("related", "1"), Tok("request", "0"))>>,
                    <<2, <<"related">> >> >>)),
      File(Table(CategoriesCols, << <<1, <<>> >> >>)) }

\* what the destination may hold before the first run: no relation, or a
\* relation left by something else
PriorRelations ==
    { NoTable,
      Table(<< <<"old">> >>, << <<7>>, <<8>>, <<9>> >>),
      Table(<<ID, MESSAGE, ORIGINAL, GENRE>>, << <<5, "m0", "o0", "direct">> >>) }

USAGE == "Please provide the filepaths"
LOADING == "Loading data..."
CLEANING == "Cleaning data..."
SAVING == "Saving data..."
SAVED == "Cleaned data saved to database!"

Init ==
    /\ pc = "main"
    /\ run = 1
    /\ saves = 0
    /\ argc \in 0..MaxArgs
    /\ fs \in [messages : MessagesFiles, categories : CategoriesFiles]
    /\ db \in PriorRelations
    /\ obj = NoTable
    /\ df = NoTable
    /\ input = NoTable
    /\ again = NotCalled
    /\ err = ""
    /\ out = <<>>

\* len(sys.argv) >= 4
MutArgsAtLeast == argc + 1 >= ExpectedArgv

\* len(sys.argv) == 4
ArgsOk == argc + 1 = ExpectedArgv

\* the else branch of main
MainUsage ==
    /\ pc = "main"
    /\ ~ArgsOk
    /\ out' = Append(out, USAGE)
    /\ pc' = "exit"
    /\ UNCHANGED <<argc, fs, obj, df, again, input, err, db, run, saves>>

\* df = load_data(messages_filepath, categories_filepath)
MainLoad ==
    /\ pc = "main"
    /\ ArgsOk
    /\ out' = Append(out, LOADING)
    /\ \E r \in {load_data(fs.messages, fs.categories)} :
           /\ pc' = IF r.ok THEN "loaded" ELSE "failed"
           /\ err' = r.err
           /\ df' = r.ret
           /\ obj' = r.ret
           /\ input' = r.ret
    /\ UNCHANGED <<argc, fs, again, db, run, saves>>

\* clean_data's exception swallowed: the run goes on to save
MutMainCleanGoesOn ==
    /\ pc = "loaded"
    /\ out' = Append(out, CLEANING)
    /\ \E r \in {clean_data(df)} :
           /\ pc' = "cleaned"
           /\ err' = r.err
           /\ df' = r.ret
           /\ obj' = r.arg
    /\ UNCHANGED <<argc, fs, again, input, db, run, saves>>

\* df = clean_data(df)
MainClean ==
    /\ pc = "loaded"
    /\ out' = Append(out, CLEANING)
    /\ \E r \in {clean_data(df)} :
           /\ pc' = IF r.ok THEN "cleaned" ELSE "failed"
           /\ err' = r.err
           /\ df' = r.ret
           /\ obj' = r.arg
    /\ UNCHANGED <<argc, fs, again, input, db, run, saves>>

\* save_data(df, database_filepath), and the last print
MainSave ==
    /\ pc = "cleaned"
    /\ out' = out \o <<SAVING, SAVED>>
    /\ db' = save_data(df, db)
    /\ saves' = saves + 1
    /\ pc' = "exit"
    /\ UNCHANGED <<argc, fs, obj, df, again, input, err, run>>

\* the process is started again, with other arguments and source files
NextRun ==
    /\ pc \in {"exit", "failed"}
    /\ run < MaxRuns
    /\ run' = run + 1
    /\ pc' = "main"
    /\ argc' \in 0..MaxArgs
    /\ fs' \in [messages : MessagesFiles, categories : CategoriesFiles]
    /\ obj' = NoTable
    /\ df' = NoTable
    /\ input' = NoTable
    /\ err' = ""
    /\ out' = <<>>
    /\ UNCHANGED <<again, db, saves>>

Next == MainUsage \/ MainLoad \/ MainClean \/ MainSave \/ NextRun

Spec == Init /\ [][Next]_vars

-----------------------------------------------------------------------------
(* Properties of clean_data, under SpecClean *)

Returned == pc \in {"returned", "done"}
Called == pc # "call"

\* s is a run of tokens name-digit joined by ";": token i is at 4i-3 .. 4i-1
AllWellShaped(s) ==
    /\ Len(s) % 4 = 3
    /\ \A i \in 1..((Len(s) + 1) \div 4) :
           /\ s[4 * i - 3] \notin {DASH, SEMI}
           /\ s[4 * i - 2] = DASH
           /\ s[4 * i - 1] \in Digits
           /\ 4 * i <= Len(s) => s[4 * i] = SEMI

NTok(s) == (Len(s) + 1) \div 4
NameAt(s, i) == <<s[4 * i - 3]>>
DigitAt(s, i) == DigitVal(s[4 * i - 1])

CatsIn(r) == Cell(input, r, CATEGORIES)
KeyIn(r) == <<Cell(input, r, MESSAGE), Cell(input, r, ORIGINAL)>>
KeyOut(q) == <<Cell(df, q, MESSAGE), Cell(df, q, ORIGINAL)>>
IdOut(q) == Cell(df, q, ID)

\* number of columns of the input other than categories
NBase == Len(input.cols) - 1
CatColsOut == (NBase + 1)..Len(df.cols)

InputWellShaped == \A r \in 1..NRows(input) : AllWellShaped(CatsIn(r))

\* every record has as many tokens as the first, whose names differ pairwise
UniformSchema ==
    /\ NRows(input) >= 1
    /\ \A r \in 1..NRows(input) : NTok(CatsIn(r)) = NTok(CatsIn(1))
    /\ \A i, j \in 1..NTok(CatsIn(1)) :
           i # j => NameAt(CatsIn(1), i) # NameAt(CatsIn(1), j)

\* C1: when every token of every record has the shape name-digit, every
\* category cell of the returned table is 0 or 1: 0 for the digit 0, 1 for
\* the digit 1 and 1 for the digits 2..9 of the record's token at the
\* column's position; and the call does not fail when the records have the
\* same number of tokens and the first record's names are distinct.
C1_ZeroOrOne ==
    (Called /\ InputWellShaped) =>
        /\ UniformSchema => Returned
        /\ Returned =>
               \A q \in 1..NRows(df) : \A c \in CatColsOut :
                   /\ df.rows[q][c] \in {0, 1}
                   /\ \E i \in 1..NTok(CatsIn(1)) :
                          /\ NameAt(CatsIn(1), i) = df.cols[c]
                          /\ df.rows[q][c] =
                                 IF DigitAt(CatsIn(IdOut(q)), i) = 0 THEN 0 ELSE 1

\* a digit of 2..9 was decoded to 1 in a column that is returned
C1_Witness ==
    /\ pc = "returned"
    /\ InputWellShaped
    /\ \E q \in 1..NRows(df) : \E c \in CatColsOut : \E i \in 1..NTok(CatsIn(1)) :
           /\ NameAt(CatsIn(1), i) = df.cols[c]
           /\ DigitAt(CatsIn(IdOut(q)), i) >= 2
           /\ df.rows[q][c] = 1

\* C2: the returned table has no category column whose value is the same in
\* all of its rows (stated for the inputs whose tokens all have the shape
\* name-digit, which the claim includes).
C2_NoConstantColumn ==
    (Returned /\ InputWellShaped) =>
        \A c \in CatColsOut :
            Cardinality({df.rows[q][c] : q \in 1..NRows(df)}) # 1

\* the first record with the (message, original) pair of record r
FirstOfKey(r) ==
    CHOOSE f \in 1..r : KeyIn(f) = KeyIn(r) /\ \A e \in 1..(f - 1) : KeyIn(e) # KeyIn(r)

\* the names of the first record's tokens and the clipped number of token i
\* of record r
FirstNames == [i \in 1..Len(StrSplit(CatsIn(1), SEMI)) |->
                  StrSplit(StrSplit(CatsIn(1), SEMI)[i], DASH)[1]]
TokenNumber(r, i) ==
    LET n == IntOf(StrSplit(StrSplit(CatsIn(r), SEMI)[i], DASH)[2])
    IN  IF n <= 0 THEN 0 ELSE 1

\* row q of the returned table is record r: its cells other than categories,
\* and in every category column the clipped number of r's token at the
\* position of the column's name in the first record
RowIsRecord(q, r) ==
    /\ SubSeq(df.rows[q], 1, NBase) = SubSeq(input.rows[r], 1, NBase)
    /\ \A c \in CatColsOut :
           \E i \in 1..Len(FirstNames) :
               /\ FirstNames[i] = df.cols[c]
               /\ df.rows[q][c] = TokenNumber(r, i)

\* C3: no two rows of the returned table share (message, original), and each
\* pair of the input has exactly one row, the first record with that pair,
\* with that record's decoded values.
C3_FirstOfEachPair ==
    Returned =>
        /\ \A q1, q2 \in 1..NRows(df) : q1 # q2 => KeyOut(q1) # KeyOut(q2)
        /\ \A r \in 1..NRows(input) :
               \E q \in 1..NRows(df) : RowIsRecord(q, FirstOfKey(r))
        /\ \A q \in 1..NRows(df) :
               \E r \in 1..NRows(input) : r = FirstOfKey(r) /\ RowIsRecord(q, r)

\* a later record with the pair of an earlier one and other values in a
\* returned column was dropped
C3_Witness ==
    /\ pc = "returned"
    /\ NRows(df) < NRows(input)
    /\ \E r \in 1..NRows(input) : \E c \in CatColsOut : \E i \in 1..Len(FirstNames) :
           /\ FirstOfKey(r) # r
           /\ FirstNames[i] = df.cols[c]
           /\ TokenNumber(r, i) # TokenNumber(FirstOfKey(r), i)

\* C4: the call fails when some token of some record does not have the shape
\* name-digit, and when the first record's category string is empty.
C4_MalformedFails ==
    (Called /\ (~InputWellShaped \/ (NRows(input) >= 1 /\ CatsIn(1) = <<>>)))
        => pc = "raised"

\* C7: clean_data called on a table it returned returns that table.
C7_Idempotent ==
    pc = "done" => (again.state = "returned" /\ again.ret = df)

\* C8: the table handed to clean_data is after the call as it was before
\* (stated for the inputs whose tokens all have the shape name-digit, which
\* the claim includes).
C8_ArgumentUntouched == (Called /\ InputWellShaped) => obj = input

\* C10: the returned columns are the input's columns other than categories, in
\* the input's order, then the category columns that have two values over the
\* records, named and ordered as the first record's tokens; each cell of a
\* category column is the clipped number of the record's token at the
\* position of the column's name in the first record.
C10_ColumnsAndValues ==
    Returned =>
        LET base == SelectSeq(input.cols, LAMBDA c : c # CATEGORIES)
            two == {i \in 1..Len(FirstNames) :
                       \E r1, r2 \in 1..NRows(input) :
                           TokenNumber(r1, i) # TokenNumber(r2, i)}
        IN  /\ SubSeq(df.cols, 1, NBase) = base
            /\ Len(df.cols) = NBase + Cardinality(two)
            /\ \A c \in CatColsOut :
                   \E i \in two :
                       /\ df.cols[c] = FirstNames[i]
                       /\ Cardinality({j \in two : j < i}) = c - NBase - 1
            /\ \A q \in 1..NRows(df) : RowIsRecord(q, IdOut(q))

\* a record names its tokens in another order than the first record, and
\* category columns are returned
C10_Witness ==
    /\ pc = "returned"
    /\ CatColsOut # {}
    /\ \E q \in 1..NRows(df) : \E i \in 1..Len(FirstNames) :
           StrSplit(StrSplit(CatsIn(IdOut(q)), SEMI)[i], DASH)[1] # FirstNames[i]

-----------------------------------------------------------------------------
(* Properties of main, under Spec *)

IsPrefix(a, b) == Len(a) <= Len(b) /\ SubSeq(b, 1, Len(a)) = a

\* C5: the stages of a run are load_data, clean_data, save_data in this
\* order, each at most once; a run in which load_data or clean_data failed
\* has not called save_data; and the relation at the destination changes
\* only in the step that saves, taken after both have returned.
C5_StagesInOrder ==
    /\ [](/\ out = <<USAGE>> \/ IsPrefix(out, <<LOADING, CLEANING, SAVING, SAVED>>)
          /\ pc = "failed" => (err # "" /\ \A k \in 1..Len(out) : out[k] # SAVING))
    /\ [][db' # db =>
             /\ pc = "cleaned" /\ err = ""
             /\ out = <<LOADING, CLEANING>>
             /\ out' = <<LOADING, CLEANING, SAVING, SAVED>>]_vars

\* clean_data failed in a run against a destination that an earlier run saved
\* to: the relation is still there
C5_Witness ==
    /\ pc = "failed"
    /\ out = <<LOADING, CLEANING>>
    /\ err = "ValueError"
    /\ saves = 1
    /\ NRows(db) >= 1

\* C6: after a run has saved, the relation holds exactly the columns and the
\* rows of the table handed to save_data, whatever it held before.
C6_RelationReplaced ==
    (pc = "exit" /\ out = <<LOADING, CLEANING, SAVING, SAVED>>) =>
        /\ db.cols = df.cols
        /\ db.rows = df.rows

\* the second run that saved to the destination
C6_Witness ==
    /\ pc = "exit"
    /\ out = <<LOADING, CLEANING, SAVING, SAVED>>
    /\ saves = 2
    /\ NRows(df) >= 1
    /\ db = df

\* C9: with a number of positional arguments other than three the run prints
\* the usage message and nothing else, loads, cleans and saves nothing, and
\* no step of it changes the relation at the destination.
C9_UsageOnly ==
    /\ [](argc # 3 =>
             /\ pc \in {"main", "exit"}
             /\ pc = "main" => out = <<>>
             /\ pc = "exit" => out = <<USAGE>>
             /\ df = NoTable /\ obj = NoTable /\ err = "")
    /\ [][argc # 3 => db' = db]_vars

\* a run with four positional arguments has ended
C9_Witness ==
    /\ argc = 4
    /\ pc = "exit"
    /\ out = <<USAGE>>

====
